---- MODULE Spec2Model ----
(***************************************************************************)
(* Model of the ray tracer's driver (src/rt.c): the command line, the row  *)
(* scheduler and its worker threads, the anti-aliasing sampler, the        *)
(* nearest-hit scan and the recursive shaded renderer.                     *)
(*                                                                         *)
(* Six specifications share the module:                                    *)
(*   SpecRun   one whole run of main(), workers interleaved with main      *)
(*   SpecRace  the same run, every call of rand() a step of its own        *)
(*   SpecPart  the row ranges multithreading() computes, any height and N  *)
(*   SpecCast  image_cast_ray() on one pixel, any outcome of rand()        *)
(*   SpecScene scene_intersect_ray() on any object collection              *)
(*   SpecTrace render_shaded() from MAX_DEPTH, any hit/miss sequence       *)
(***************************************************************************)
EXTENDS Integers, Sequences, FiniteSets, TLC

\* ------------------------------------------------------------ bounds
\* The image is 1000 x 1000 in main(); the model renders a small one.
ImageWidth == 2
ImageHeight == 3
\* Largest processor count sysconf() reports in the model.
MaxProcs == 3
\* Largest number of option arguments (argv[3..]) in the model.
MaxOpts == 2
\* Width of size_t in the model, in bits.
SizeBits == 16

\* ------------------------------------------------------------ program constants
NUM_SAMPLES == 4
MAX_DEPTH == 10
\* sizeof(struct thread_info) on an LP64 build: seven 8-byte members.
SizeofThreadInfo == 56

SIZE_MAX == 2 ^ SizeBits - 1

VARIABLES
    \* ---- SpecRun: main() and the worker threads
    argc,        \* main's argc
    opts,        \* argv[3 .. argc-1]
    nprocs,      \* what sysconf(_SC_NPROCESSORS_ONLN) returns (-1: error)
    pc,          \* main thread's position
    renderer,    \* main's render_mode_f
    num_threads, \* multithreading's num_threads
    tnum,        \* multithreading's loop index
    tinfo,       \* the calloc'ed struct thread_info array, indexed from 0
    wstate,      \* per created thread: "run" or "done"
    wpos,        \* per created thread: [y, x, call, in_rand]
    joined,      \* threads pthread_join returned for
    image,       \* per pixel: the sequence of rgb_image_set calls on it
    encoded,     \* bmp_write has been called
    exit_code,   \* process exit status, NoExit while running
    failure,     \* the operation that failed ("usage", "load", ...), "none" if none
    \* ---- SpecPart: the creation loop's row ranges alone
    p_height,    \* image->height
    p_n,         \* num_threads
    p_tnum,      \* loop index
    p_tinfo,     \* [y_s, y_e] per thread assigned so far
    \* ---- SpecCast: image_cast_ray on one pixel
    c_x, c_y,    \* the pixel
    c_i,         \* loop index
    c_ray,       \* [u, v] per sample cast so far, in 1/Unit of a pixel
    \* ---- SpecScene: scene_intersect_ray
    s_objs,      \* per object of scene->objects: what its intersect returns for the ray
    s_result,    \* [dist, hit]: the returned distance and whose intersection was copied
    \* ---- SpecTrace: render_shaded
    t_stack,     \* activation records of render_shaded, outermost first
    t_ret,       \* value returned by the call that returned last
    t_calls,     \* depth argument of every call made, in call order
    t_queried,   \* depth arguments of the calls that ran scene_intersect_ray
    t_missed     \* depth arguments of the calls whose ray hit nothing

vars_run == <<argc, opts, nprocs, pc, renderer, num_threads, tnum, tinfo,
              wstate, wpos, joined, image, encoded, exit_code, failure>>
vars_part == <<p_height, p_n, p_tnum, p_tinfo>>
vars_cast == <<c_x, c_y, c_i, c_ray>>
vars_scene == <<s_objs, s_result>>
vars_trace == <<t_stack, t_ret, t_calls, t_queried, t_missed>>

vars == <<vars_run, vars_part, vars_cast, vars_scene, vars_trace>>

NoExit == 0 - 1

Others_Run == UNCHANGED <<vars_part, vars_cast, vars_scene, vars_trace>>

Flags == {"--normals", "--distances", "--verbose"}
Modes == {"render_shaded", "render_normals", "render_distances"}

Pixels == (0 .. ImageWidth - 1) \X (0 .. ImageHeight - 1)

RECURSIVE SeqsUpTo(_, _)
SeqsUpTo(S, n) ==
    IF n = 0 THEN {<<>>}
    ELSE LET shorter == SeqsUpTo(S, n - 1)
         IN  shorter \cup {Append(s, e) : s \in {t \in shorter : Len(t) = n - 1}, e \in S}

\* ------------------------------------------------------------ main: options
\* Mutant: the first mode flag wins.
OptionStep_FirstWins(r, a) ==
    IF r # "render_shaded" THEN r
    ELSE IF a = "--normals" THEN "render_normals"
    ELSE IF a = "--distances" THEN "render_distances"
    ELSE r

\* One iteration of main's option loop on argument a.
OptionStep(r, a) ==
    IF a = "--normals" THEN "render_normals"
    ELSE IF a = "--distances" THEN "render_distances"
    ELSE r

RECURSIVE ParseFrom(_, _, _)
ParseFrom(o, i, r) ==
    IF i > Len(o) THEN r ELSE ParseFrom(o, i + 1, OptionStep(r, o[i]))

ParseOptions(o) == ParseFrom(o, 1, "render_shaded")

\* ------------------------------------------------------------ scheduler arithmetic
size_t(n) == n % (2 ^ SizeBits)

\* Mutant: the start is rounded up, the end down.
RowStart_RoundedUp(t, height, n) == (size_t(t * height) + n - 1) \div n
RowStart(t, height, n) == size_t(t * height) \div n
\* Mutant: the end is rounded up, the start down.
RowEnd_RoundedUp(t, height, n) == (size_t((t + 1) * height) + n - 1) \div n
RowEnd(t, height, n) == size_t((t + 1) * height) \div n

\* calloc cannot return an object larger than SIZE_MAX bytes.
xcalloc_fails(nmemb, size) == nmemb * size > SIZE_MAX

\* ------------------------------------------------------------ SpecRun
InitRun ==
    /\ argc \in 1 .. 3 + MaxOpts
    /\ opts \in {o \in SeqsUpTo(Flags, MaxOpts) : Len(o) = IF argc > 3 THEN argc - 3 ELSE 0}
    /\ nprocs \in {0 - 1} \cup (1 .. MaxProcs)
    /\ pc = "start"
    /\ renderer = "unset"
    /\ num_threads = 0
    /\ tnum = 0
    /\ tinfo = <<>>
    /\ wstate = <<>>
    /\ wpos = <<>>
    /\ joined = {}
    /\ image = [p \in Pixels |-> <<>>]
    /\ encoded = FALSE
    /\ exit_code = NoExit
    /\ failure = "none"

Running == exit_code = NoExit /\ pc # "xcalloc_failed"

Exit(code, why) ==
    /\ exit_code' = code
    /\ failure' = why
    /\ pc' = "exited"

\* main, lines 373-374: the argument count.
Main_Usage ==
    /\ Others_Run
    /\ Running /\ pc = "start"
    /\ IF argc < 3
       THEN Exit(1, "usage")
       ELSE pc' = "load" /\ UNCHANGED <<exit_code, failure>>
    /\ UNCHANGED <<argc, opts, nprocs, renderer, num_threads, tnum, tinfo,
                   wstate, wpos, joined, image, encoded>>

\* Mutant: the result of load_obj is ignored.
Main_Load_Unchecked ==
    /\ Others_Run
    /\ Running /\ pc = "load"
    /\ \E ok \in BOOLEAN :
         /\ failure' = IF ok THEN failure ELSE "load"
         /\ pc' = "options"
         /\ UNCHANGED exit_code
    /\ UNCHANGED <<argc, opts, nprocs, renderer, num_threads, tnum, tinfo,
                   wstate, wpos, joined, image, encoded>>

\* main, lines 376-392: the image is allocated and cleared, the scene loaded.
Main_Load ==
    /\ Others_Run
    /\ Running /\ pc = "load"
    /\ \E ok \in BOOLEAN :
         IF ok
         THEN pc' = "options" /\ UNCHANGED <<exit_code, failure>>
         ELSE Exit(41, "load")
    /\ UNCHANGED <<argc, opts, nprocs, renderer, num_threads, tnum, tinfo,
                   wstate, wpos, joined, image, encoded>>

\* main, lines 397-404: the option loop.
Main_Options ==
    /\ Others_Run
    /\ Running /\ pc = "options"
    /\ renderer' = ParseOptions(opts)
    /\ pc' = "alloc"
    /\ UNCHANGED <<argc, opts, nprocs, num_threads, tnum, tinfo,
                   wstate, wpos, joined, image, encoded, exit_code, failure>>

\* multithreading, lines 329-334: the worker count and the thread_info array.
MT_Alloc ==
    /\ Others_Run
    /\ Running /\ pc = "alloc"
    /\ num_threads' = size_t(nprocs)
    /\ tnum' = 0
    /\ IF xcalloc_fails(size_t(nprocs), SizeofThreadInfo)
       THEN pc' = "xcalloc_failed" /\ UNCHANGED tinfo
       ELSE /\ pc' = "create"
            /\ tinfo' = [k \in 0 .. size_t(nprocs) - 1 |->
                            [thread_num |-> 0, y_s |-> 0, y_e |-> 0, renderer |-> "unset"]]
    /\ UNCHANGED <<argc, opts, nprocs, renderer, wstate, wpos, joined, image,
                   encoded, exit_code, failure>>

\* multithreading, lines 338-353: one iteration of the creation loop.
MT_Create ==
    /\ Others_Run
    /\ Running /\ pc = "create"
    /\ IF tnum < num_threads
       THEN /\ tinfo' = [tinfo EXCEPT ![tnum] =
                           [thread_num |-> tnum + 1,
                            y_s |-> RowStart(tnum, ImageHeight, num_threads),
                            y_e |-> RowEnd(tnum, ImageHeight, num_threads),
                            renderer |-> renderer]]
            /\ \E res \in {0, 1} :
                 IF res # 0
                 THEN /\ Exit(42, "create")
                      /\ UNCHANGED <<tnum, wstate, wpos>>
                 ELSE /\ wstate' = (tnum :> "run") @@ wstate
                      /\ wpos' = (tnum :> [y |-> RowStart(tnum, ImageHeight, num_threads),
                                            x |-> 0, call |-> 0, in_rand |-> FALSE]) @@ wpos
                      /\ tnum' = tnum + 1
                      /\ UNCHANGED <<pc, exit_code, failure>>
       ELSE /\ pc' = "join"
            /\ tnum' = 0
            /\ UNCHANGED <<tinfo, wstate, wpos, exit_code, failure>>
    /\ UNCHANGED <<argc, opts, nprocs, renderer, num_threads, joined, image, encoded>>

\* Mutant: the join does not wait for the thread.
pthread_join_nowait(k) == TRUE

\* pthread_join (line 358) returns 0 only once the thread has returned.
pthread_join_returns(k) == wstate[k] = "done"

\* multithreading, lines 356-366: one iteration of the join loop.
MT_Join ==
    /\ Others_Run
    /\ Running /\ pc = "join"
    /\ IF tnum < num_threads
       THEN \/ /\ pthread_join_returns(tnum)
               /\ joined' = joined \cup {tnum}
               /\ tnum' = tnum + 1
               /\ UNCHANGED <<pc, exit_code, failure>>
            \/ /\ Exit(42, "join")
               /\ UNCHANGED <<joined, tnum>>
       ELSE /\ pc' = "fopen"
            /\ UNCHANGED <<joined, tnum, exit_code, failure>>
    /\ UNCHANGED <<argc, opts, nprocs, renderer, num_threads, tinfo, wstate, wpos,
                   image, encoded>>

\* main, lines 410-412: the output file.
Main_Fopen ==
    /\ Others_Run
    /\ Running /\ pc = "fopen"
    /\ \E ok \in BOOLEAN :
         IF ok
         THEN pc' = "bmp_write" /\ UNCHANGED <<exit_code, failure>>
         ELSE Exit(1, "fopen")
    /\ UNCHANGED <<argc, opts, nprocs, renderer, num_threads, tnum, tinfo,
                   wstate, wpos, joined, image, encoded>>

\* main, lines 414-420: the encoder runs and its result is the exit status.
Main_BmpWrite ==
    /\ Others_Run
    /\ Running /\ pc = "bmp_write"
    /\ encoded' = TRUE
    /\ \E rc \in {0, 1} : exit_code' = rc
    /\ pc' = "returned"
    /\ UNCHANGED <<argc, opts, nprocs, renderer, num_threads, tnum, tinfo,
                   wstate, wpos, joined, image, failure>>

\* ---- worker threads (thread_start, aa_render, image_cast_ray, random_double)
Alive(k) == Running /\ k \in DOMAIN wstate /\ wstate[k] = "run"

InRows(k) == wpos[k].y < tinfo[k].y_e

\* random_double, line 121: the call of rand() begins; rand() reads the
\* process-wide generator state, and the code takes no lock around it.
W_RandEnter(k) ==
    /\ Others_Run
    /\ Alive(k) /\ InRows(k)
    /\ wpos[k].call < 2 * NUM_SAMPLES
    /\ ~wpos[k].in_rand
    /\ wpos' = [wpos EXCEPT ![k].in_rand = TRUE]
    /\ UNCHANGED <<argc, opts, nprocs, pc, renderer, num_threads, tnum, tinfo,
                   wstate, joined, image, encoded, exit_code, failure>>

\* random_double, line 121: rand() writes the generator state back and returns.
W_RandExit(k) ==
    /\ Others_Run
    /\ Alive(k)
    /\ wpos[k].in_rand
    /\ wpos' = [wpos EXCEPT ![k].in_rand = FALSE, ![k].call = @ + 1]
    /\ UNCHANGED <<argc, opts, nprocs, pc, renderer, num_threads, tnum, tinfo,
                   wstate, joined, image, encoded, exit_code, failure>>

\* aa_render, lines 275-285: the samples are rendered by tinfo's renderer and
\* the pixel is set; then thread_start's loops advance (lines 317-318).
SetPixel(k) ==
    /\ image' = [image EXCEPT ![<<wpos[k].x, wpos[k].y>>] =
                    Append(@, [by |-> k, mode |-> tinfo[k].renderer])]
    /\ wpos' = [wpos EXCEPT ![k] =
                    IF wpos[k].x + 1 < ImageWidth
                    THEN [y |-> wpos[k].y, x |-> wpos[k].x + 1, call |-> 0, in_rand |-> FALSE]
                    ELSE [y |-> wpos[k].y + 1, x |-> 0, call |-> 0, in_rand |-> FALSE]]
    /\ UNCHANGED <<argc, opts, nprocs, pc, renderer, num_threads, tnum, tinfo,
                   wstate, joined, encoded, exit_code, failure>>

\* aa_render once image_cast_ray has made its 2 * NUM_SAMPLES calls of rand().
W_Pixel(k) ==
    /\ Others_Run
    /\ Alive(k) /\ InRows(k)
    /\ wpos[k].call = 2 * NUM_SAMPLES
    /\ ~wpos[k].in_rand
    /\ SetPixel(k)

\* aa_render on one pixel as a single step: image_cast_ray's calls of rand()
\* change no variable of the model but the thread's own position.
W_Render(k) ==
    /\ Others_Run
    /\ Alive(k) /\ InRows(k)
    /\ wpos[k].call = 0
    /\ ~wpos[k].in_rand
    /\ SetPixel(k)

\* thread_start, line 322: the row loop is over.
W_Return(k) ==
    /\ Others_Run
    /\ Alive(k) /\ ~InRows(k)
    /\ wstate' = [wstate EXCEPT ![k] = "done"]
    /\ UNCHANGED <<argc, opts, nprocs, pc, renderer, num_threads, tnum, tinfo,
                   wpos, joined, image, encoded, exit_code, failure>>

IdlePart == p_height = 0 /\ p_n = 0 /\ p_tnum = 0 /\ p_tinfo = <<>>
IdleCast == c_x = 0 /\ c_y = 0 /\ c_i = 0 /\ c_ray = <<>>
IdleScene == s_objs = <<>> /\ s_result = <<>>
IdleTrace == t_stack = <<>> /\ t_ret = "none" /\ t_calls = <<>> /\ t_queried = {} /\ t_missed = {}
IdleRun ==
    /\ argc = 0 /\ opts = <<>> /\ nprocs = 0 /\ pc = "idle" /\ renderer = "unset"
    /\ num_threads = 0 /\ tnum = 0 /\ tinfo = <<>> /\ wstate = <<>> /\ wpos = <<>>
    /\ joined = {} /\ image = <<>> /\ encoded = FALSE /\ exit_code = NoExit
    /\ failure = "none"

\* One run of the program; a worker's aa_render is one step per pixel.
InitRunSpec == InitRun /\ IdlePart /\ IdleCast /\ IdleScene /\ IdleTrace

NextRun ==
    \/ Main_Usage
    \/ Main_Load
    \/ Main_Options
    \/ MT_Alloc
    \/ MT_Create
    \/ MT_Join
    \/ Main_Fopen
    \/ Main_BmpWrite
    \/ \E k \in 0 .. MaxProcs - 1 : W_Render(k)
    \/ \E k \in 0 .. MaxProcs - 1 : W_Return(k)

SpecRun == InitRunSpec /\ [][NextRun]_vars

\* The same run with every call of rand() a step of its own; the options,
\* which the generator does not depend on, are left out.
InitRace == InitRunSpec /\ argc = 3

NextRace ==
    \/ Main_Usage
    \/ Main_Load
    \/ Main_Options
    \/ MT_Alloc
    \/ MT_Create
    \/ MT_Join
    \/ Main_Fopen
    \/ Main_BmpWrite
    \/ \E k \in 0 .. MaxProcs - 1 : W_RandEnter(k)
    \/ \E k \in 0 .. MaxProcs - 1 : W_RandExit(k)
    \/ \E k \in 0 .. MaxProcs - 1 : W_Pixel(k)
    \/ \E k \in 0 .. MaxProcs - 1 : W_Return(k)

SpecRace == InitRace /\ [][NextRace]_vars

\* ------------------------------------------------------------ SpecPart
\* Largest image height and worker count of the row-range specification.
MaxHeight == 6
MaxWorkers == 6

Others_Part == UNCHANGED <<vars_run, vars_cast, vars_scene, vars_trace>>

InitPart ==
    /\ p_height \in 1 .. MaxHeight
    /\ p_n \in 1 .. MaxWorkers
    /\ p_tnum = 0
    /\ p_tinfo = <<>>
    /\ IdleRun /\ IdleCast /\ IdleScene /\ IdleTrace

\* multithreading, lines 338-343: one iteration assigns thread tnum its rows.
Part_Assign ==
    /\ p_tnum < p_n
    /\ p_tinfo' = Append(p_tinfo, [y_s |-> RowStart(p_tnum, p_height, p_n),
                                   y_e |-> RowEnd(p_tnum, p_height, p_n)])
    /\ p_tnum' = p_tnum + 1
    /\ UNCHANGED <<p_height, p_n>>
    /\ Others_Part

NextPart == Part_Assign

SpecPart == InitPart /\ [][NextPart]_vars

\* ------------------------------------------------------------ SpecCast
\* rand() returns 0 .. RandMax in the model.
RandMax == 2
\* Largest pixel coordinate of the sampler specification.
MaxCoord == 1

\* Positions are counted in 1/Unit of a pixel, so that every value
\* random_double can return is a whole number: Half is 0.5, Unit is 1.
Half == RandMax + 1
Unit == 2 * Half

\* random_double, line 121, on rand() = r.
random_double(min, max, r) == min + ((max - min) * r) \div (RandMax + 1)

\* image_cast_ray, line 137: rank = sqrt(NUM_SAMPLES).
Rank == CHOOSE r \in 1 .. NUM_SAMPLES : r * r = NUM_SAMPLES

\* image_cast_ray, line 150: the sample's v offset is drawn from [0, 0.5).
VLow(i) == i < NUM_SAMPLES \div 2

\* Mutant: u is split on the same half of the samples as v.
ULow_AsV(i) == i < NUM_SAMPLES \div 2

\* image_cast_ray, lines 155-156: the sample's u offset is drawn from [0, 0.5).
ULow(i) ==
    LET l == i - (i % Rank)
    IN  i >= l /\ 2 * i < 2 * l + Rank

Others_Cast == UNCHANGED <<vars_run, vars_part, vars_scene, vars_trace>>

InitCast ==
    /\ c_x \in 0 .. MaxCoord
    /\ c_y \in 0 .. MaxCoord
    /\ c_i = 0
    /\ c_ray = <<>>
    /\ IdleRun /\ IdlePart /\ IdleScene /\ IdleTrace

\* image_cast_ray, lines 139-165: one iteration of the sample loop.
Cast_Sample ==
    /\ c_i < NUM_SAMPLES
    /\ \E rv \in 0 .. RandMax, ru \in 0 .. RandMax :
         LET v == IF VLow(c_i)
                  THEN c_y * Unit + random_double(0, Half, rv)
                  ELSE c_y * Unit + random_double(Half, Unit, rv)
             u == IF ULow(c_i)
                  THEN c_x * Unit + random_double(0, Half, ru)
                  ELSE c_x * Unit + random_double(Half, Unit, ru)
         IN  c_ray' = Append(c_ray, [u |-> u, v |-> v])
    /\ c_i' = c_i + 1
    /\ UNCHANGED <<c_x, c_y>>
    /\ Others_Cast

NextCast == Cast_Sample

SpecCast == InitCast /\ [][NextCast]_vars

\* ------------------------------------------------------------ SpecScene
\* Largest object count and largest finite distance of the scan specification.
MaxObjs == 3
MaxDist == 3

\* INFINITY: above every finite distance.
Infinity == MaxDist + 1
Distances == (1 .. MaxDist) \cup {Infinity}

\* Mutant: an object at the same distance replaces the current best.
Skipped_Strict(intersection_dist, closest_intersection_dist) ==
    intersection_dist > closest_intersection_dist

\* scene_intersect_ray, line 184: the object is skipped.
Skipped(intersection_dist, closest_intersection_dist) ==
    intersection_dist >= closest_intersection_dist

\* scene_intersect_ray, lines 178-189, from object i on; hit = 0 stands for
\* a *closest_intersection the scan never wrote.
RECURSIVE ScanFrom(_, _, _)
ScanFrom(objs, i, best) ==
    IF i > Len(objs) THEN best
    ELSE IF Skipped(objs[i], best.dist)
         THEN ScanFrom(objs, i + 1, best)
         ELSE ScanFrom(objs, i + 1, [dist |-> objs[i], hit |-> i])

scene_intersect_ray(objs) == ScanFrom(objs, 1, [dist |-> Infinity, hit |-> 0])

Others_Scene == UNCHANGED <<vars_run, vars_part, vars_cast, vars_trace>>

InitScene ==
    /\ s_objs = <<>>
    /\ s_result = <<>>
    /\ IdleRun /\ IdlePart /\ IdleCast /\ IdleTrace

\* object_vect_push (as at lines 39-47): one more object, which the ray
\* meets at distance d or misses.
Scene_Push ==
    /\ Len(s_objs) < MaxObjs
    /\ \E d \in Distances : s_objs' = Append(s_objs, d)
    /\ s_result' = <<>>
    /\ Others_Scene

\* scene_intersect_ray, lines 170-192.
Scene_Query ==
    /\ s_result = <<>>
    /\ s_result' = scene_intersect_ray(s_objs)
    /\ UNCHANGED s_objs
    /\ Others_Scene

NextScene == Scene_Push \/ Scene_Query

SpecScene == InitScene /\ [][NextScene]_vars

\* ------------------------------------------------------------ SpecTrace
\* Number of objects a ray of the recursion specification can hit.
TraceObjs == 2

\* Mutant: the recursion stops one call too late.
OutOfDepth_Late(depth) == depth < 0

\* render_shaded, line 198.
OutOfDepth(depth) == depth <= 0

\* render_shaded, line 214: the depth handed to the nested call.
NestedDepth(depth) == depth - 1

Others_Trace == UNCHANGED <<vars_run, vars_part, vars_cast, vars_scene>>

\* aa_render, line 277: renderer(scene, &ray[i], MAX_DEPTH).
InitTrace ==
    /\ t_stack = <<[depth |-> MAX_DEPTH, at |-> "entry", hit |-> 0]>>
    /\ t_ret = "none"
    /\ t_calls = <<MAX_DEPTH>>
    /\ t_queried = {}
    /\ t_missed = {}
    /\ IdleRun /\ IdlePart /\ IdleCast /\ IdleScene

Top == t_stack[Len(t_stack)]
Pop == SubSeq(t_stack, 1, Len(t_stack) - 1)

\* render_shaded, lines 198-199: no depth left, black is returned.
Trace_Base ==
    /\ t_stack # <<>> /\ Top.at = "entry"
    /\ OutOfDepth(Top.depth)
    /\ t_stack' = Pop
    /\ t_ret' = "black"
    /\ UNCHANGED <<t_calls, t_queried, t_missed>>
    /\ Others_Trace

\* render_shaded, lines 201-206: the nearest-hit query finds nothing.
Trace_Miss ==
    /\ t_stack # <<>> /\ Top.at = "entry"
    /\ ~OutOfDepth(Top.depth)
    /\ t_queried' = t_queried \cup {Top.depth}
    /\ t_missed' = t_missed \cup {Top.depth}
    /\ t_stack' = Pop
    /\ t_ret' = "black"
    /\ UNCHANGED t_calls
    /\ Others_Trace

\* render_shaded, lines 201-214: the query hits object h and the reflected
\* ray is traced by a nested call.
Trace_Hit ==
    /\ t_stack # <<>> /\ Top.at = "entry"
    /\ ~OutOfDepth(Top.depth)
    /\ t_queried' = t_queried \cup {Top.depth}
    /\ \E h \in 1 .. TraceObjs :
         t_stack' = Append([t_stack EXCEPT ![Len(t_stack)] =
                               [depth |-> Top.depth, at |-> "nested", hit |-> h]],
                           [depth |-> NestedDepth(Top.depth), at |-> "entry", hit |-> 0])
    /\ t_calls' = Append(t_calls, NestedDepth(Top.depth))
    /\ UNCHANGED <<t_ret, t_missed>>
    /\ Others_Trace

\* render_shaded, lines 214-219: the nested call has returned; its colour,
\* scaled by 0.2, is added to the hit material's shade.
Trace_Return ==
    /\ t_stack # <<>> /\ Top.at = "nested"
    /\ t_stack' = Pop
    /\ t_ret' = "shaded"
    /\ UNCHANGED <<t_calls, t_queried, t_missed>>
    /\ Others_Trace

NextTrace == Trace_Base \/ Trace_Miss \/ Trace_Hit \/ Trace_Return

SpecTrace == InitTrace /\ [][NextTrace]_vars

\* ============================================================ claims
Max(S) == CHOOSE m \in S : \A e \in S : e <= m
Min(S) == CHOOSE m \in S : \A e \in S : m <= e

\* ---- C1
PartDone == p_tnum = p_n

RowOwners(row) == {k \in 1 .. Len(p_tinfo) : p_tinfo[k].y_s <= row /\ row < p_tinfo[k].y_e}

\* C1: for every height and every worker count N with 1 <= N <= height, once
\* the creation loop has assigned all N ranges, every row of [0, height)
\* lies in exactly one worker's range, and no range leaves [0, height).
C1_RowsPartition ==
    (PartDone /\ p_n <= p_height) =>
        /\ \A row \in 0 .. p_height - 1 : Cardinality(RowOwners(row)) = 1
        /\ \A k \in 1 .. p_n : p_tinfo[k].y_s <= p_tinfo[k].y_e /\ p_tinfo[k].y_e <= p_height

\* Three workers on five rows: the ranges are uneven (1, 2 and 2 rows).
C1_Witness == PartDone /\ p_n = 3 /\ p_height = 5

\* ---- C2
AllCreated == num_threads >= 1 /\ DOMAIN wstate = 0 .. num_threads - 1

AllFinished == AllCreated /\ \A k \in DOMAIN wstate : wstate[k] = "done"

\* C2: under every interleaving no pixel is ever set twice, each set is made
\* by the worker whose row range holds the pixel's row, and once every
\* worker has finished each pixel has been set exactly once.
C2_PixelWrittenOnce ==
    /\ \A p \in DOMAIN image : Len(image[p]) <= 1
    /\ \A p \in DOMAIN image : \A i \in 1 .. Len(image[p]) :
         LET k == image[p][i].by
         IN  tinfo[k].y_s <= p[2] /\ p[2] < tinfo[k].y_e
    /\ AllFinished => \A p \in DOMAIN image : Len(image[p]) = 1

\* Two workers sharing three rows have both finished.
C2_Witness ==
    /\ AllFinished /\ num_threads = 2
    /\ \E p \in DOMAIN image, q \in DOMAIN image :
         Len(image[p]) = 1 /\ Len(image[q]) = 1 /\ image[p][1].by # image[q][1].by

\* ---- C3
Encoding == pc \in {"bmp_write", "returned"} \/ encoded

\* C3: whenever the run is at bmp_write or past it, every worker has been
\* created, has returned from thread_start and has been joined.
C3_JoinBeforeEncode ==
    Encoding =>
        /\ AllCreated
        /\ \A k \in 0 .. num_threads - 1 : wstate[k] = "done" /\ k \in joined

\* The image of a run with three workers has been encoded.
C3_Witness == encoded /\ num_threads = 3

\* ---- C4
InRand == {k \in DOMAIN wpos : wpos[k].in_rand}

\* C4: no two workers are inside rand(), on the one generator state of the
\* process, at the same time.
C4_RandNotShared == Cardinality(InRand) <= 1

\* ---- C5
PastAlloc == pc \in {"xcalloc_failed", "create", "join", "fopen", "bmp_write", "returned"}
                \/ failure \in {"create", "join", "fopen"}

\* C5: the worker count is the processor count sysconf reports, and when
\* sysconf reports none (a value below 1) it is a positive count whose
\* thread_info array can be allocated, so that the rows are handed out.
C5_WorkerCountFallback ==
    PastAlloc =>
        /\ nprocs >= 1 => num_threads = nprocs
        /\ num_threads >= 1
        /\ ~xcalloc_fails(num_threads, SizeofThreadInfo)
        /\ pc # "xcalloc_failed"

\* ---- C6
\* The depths of the calls made so far, which of them queried the scene,
\* and the one whose ray hit nothing, which is then the last call made.
C6_DepthInv ==
    /\ \A i \in 1 .. Len(t_calls) : t_calls[i] = MAX_DEPTH - (i - 1) /\ t_calls[i] >= 0
    /\ Len(t_stack) <= Len(t_calls)
    /\ 0 \notin t_queried
    /\ Cardinality(t_missed) <= 1
    /\ \A d \in t_missed : t_calls[Len(t_calls)] = d

\* The step of a call whose depth is 0.
C6_DepthZeroStep ==
    (t_stack # <<>> /\ Top.at = "entry" /\ Top.depth = 0) =>
        /\ t_ret' = "black"
        /\ t_stack' = Pop
        /\ UNCHANGED <<t_calls, t_queried, t_missed>>

\* C6: the calls of render_shaded have depths MAX_DEPTH, MAX_DEPTH - 1, ...,
\* never below 0, so at most MAX_DEPTH nested calls are made; the call with
\* depth 0 runs no nearest-hit query, makes no nested call and returns
\* black; and after a ray has hit nothing no further call is made.
C6_RecursionBounded == []C6_DepthInv /\ [][C6_DepthZeroStep]_vars

\* Every ray hit something: the recursion went down to depth 0 and the
\* outermost call has returned.
C6_Witness == t_stack = <<>> /\ Len(t_calls) = MAX_DEPTH + 1 /\ t_ret = "shaded"

\* ---- C7
Reordered(objs) ==
    {[i \in 1 .. Len(objs) |-> objs[f[i]]] : f \in Permutations(1 .. Len(objs))}

Queried == s_result # <<>>

\* C7: the distance returned is the least distance any object reports
\* (infinity if none is hit), whatever the order of the objects, and the
\* intersection copied out is that of the first object, in collection
\* order, that reports this distance.
C7_NearestHit ==
    Queried =>
        LET least == Min({s_objs[i] : i \in 1 .. Len(s_objs)} \cup {Infinity})
        IN  /\ s_result.dist = least
            /\ least < Infinity =>
                 s_result.hit = Min({i \in 1 .. Len(s_objs) : s_objs[i] = least})
            /\ \A o \in Reordered(s_objs) : scene_intersect_ray(o).dist = least

\* The second and third object tie for the nearest hit.
C7_Witness == Queried /\ s_objs = <<2, 1, 1>> /\ s_result = [dist |-> 1, hit |-> 2]

\* ---- C8
\* The exit status of each failure and what has not happened by then.
C8_FailureInv ==
    /\ (pc # "start" /\ argc < 3) => failure = "usage"
    /\ failure = "usage" =>
         exit_code = 1 /\ renderer = "unset" /\ tinfo = <<>> /\ wstate = <<>>
    /\ failure = "load" => exit_code = 41 /\ tinfo = <<>> /\ wstate = <<>>
    /\ failure \in {"create", "join"} => exit_code = 42
    /\ failure = "fopen" => exit_code = 1
    /\ failure # "none" => ~encoded /\ pc = "exited"

\* C8: a usage error ends the run with 1 before the scene is loaded or the
\* options read; a load failure ends it with 41 and no worker; a create or
\* join failure with 42; an fopen failure with 1; after any of them the
\* encoder has not run, and no step of the program follows (no retry).
C8_FailuresTerminal == []C8_FailureInv /\ [][failure = "none"]_vars

\* pthread_join fails while a worker is still rendering.
C8_Witness == failure = "join" /\ \E k \in DOMAIN wstate : wstate[k] = "run"

\* ---- C9
ModeFlags == {"--normals", "--distances"}

LastFlag(o) ==
    LET at == {i \in 1 .. Len(o) : o[i] \in ModeFlags}
    IN  IF at = {} THEN "render_shaded"
        ELSE IF o[Max(at)] = "--normals" THEN "render_normals"
        ELSE "render_distances"

\* C9: once the options are read the mode is the one of the last mode flag
\* on the command line (shaded if there is none), and every thread_info and
\* every pixel rendered carries that mode.
C9_ModeSelectedOnce ==
    /\ PastAlloc \/ pc = "alloc" => renderer = LastFlag(opts)
    /\ \A k \in DOMAIN wstate : tinfo[k].renderer = LastFlag(opts)
    /\ \A p \in DOMAIN image : \A i \in 1 .. Len(image[p]) :
         image[p][i].mode = LastFlag(opts)

\* Both flags given, --distances last, and pixels rendered by two workers.
C9_Witness ==
    /\ opts = <<"--normals", "--distances">>
    /\ encoded
    /\ num_threads = 2
    /\ \A p \in DOMAIN image : image[p][1].mode = "render_distances"

\* ---- C10
Cell(s) ==
    <<IF s.u - c_x * Unit < Half THEN 0 ELSE 1,
      IF s.v - c_y * Unit < Half THEN 0 ELSE 1>>

\* C10: every sample lies in the pixel's unit footprint, no two samples of a
\* pixel lie in the same sub-cell of the 2 x 2 grid, and when the loop is
\* over there are NUM_SAMPLES samples, one in each of the four sub-cells.
C10_Stratified ==
    /\ \A i \in 1 .. Len(c_ray) :
         /\ c_x * Unit <= c_ray[i].u /\ c_ray[i].u < (c_x + 1) * Unit
         /\ c_y * Unit <= c_ray[i].v /\ c_ray[i].v < (c_y + 1) * Unit
    /\ \A i \in 1 .. Len(c_ray), j \in 1 .. Len(c_ray) :
         i # j => Cell(c_ray[i]) # Cell(c_ray[j])
    /\ c_i = NUM_SAMPLES =>
         /\ Len(c_ray) = NUM_SAMPLES
         /\ \A cell \in {0, 1} \X {0, 1} :
              Cardinality({i \in 1 .. Len(c_ray) : Cell(c_ray[i]) = cell}) = 1

\* All four samples of pixel (1, 1) cast, the first at the far edge of its
\* sub-cell and the last at the near corner of its own.
C10_Witness ==
    /\ c_i = NUM_SAMPLES /\ c_x = 1 /\ c_y = 1
    /\ c_ray[1] = [u |-> Unit + Half - 1, v |-> Unit + Half - 1]
    /\ c_ray[NUM_SAMPLES] = [u |-> Unit + Half, v |-> Unit + Half]
====
